---- MODULE Spec2Model ----
(***************************************************************************)
(* AICalendarAgent (agent.py): an event list kept in memory and in a JSON  *)
(* file, a keyword command parser, and a daily notifier that runs on a     *)
(* second thread.                                                          *)
(*                                                                         *)
(* Strings are sequences of one-character strings, so that lower(),        *)
(* split(), replace() and strip() are computed as Python computes them.    *)
(* An event (a Python dict) is a function from a set of keys to strings.   *)
(***************************************************************************)
EXTENDS Integers, Sequences, FiniteSets, TLC

VARIABLES
    calendar_data,  \* contents of the list object bound to self.calendar_data
    file,           \* the backing file: [exists, text]
    last,           \* history: the most recent main-thread call and its outcome
    prev,           \* history: the call before it, kept when it began on an empty store
    n_pc,           \* notifier thread: position inside check_events
    today,          \* notifier thread: local `today` of check_events
    it_shared,      \* the list the comprehension iterates is still self.calendar_data
    it_list,        \* contents of the iterated list object once it is no longer bound
    it_idx,         \* index of the list iterator (elements already consumed)
    today_events,   \* the list the comprehension builds, then `today_events`
    sent,           \* history: send attempts of the running tick, with outcomes
    tickStores      \* history: values the store took while the comprehension ran

vars == <<calendar_data, file, last, prev, n_pc, today, it_shared, it_list,
          it_idx, today_events, sent, tickStores>>

main_vars == <<calendar_data, file, last, prev>>
notifier_vars == <<n_pc, today, it_idx, today_events, sent>>

----------------------------------------------------------------------------
(* Bounds of the model *)

MaxEvents == 2
MaxConcEvents == 2
MaxTickStores == 2

----------------------------------------------------------------------------
(* String literals of the program and of its inputs *)

S_empty == <<>>
S_add_event == <<"a","d","d"," ","e","v","e","n","t">>
S_remove_event == <<"r","e","m","o","v","e"," ","e","v","e","n","t">>
S_on == <<"o","n">>
S_0900 == <<"0","9",":","0","0">>
S_1000 == <<"1","0",":","0","0">>
S_1400 == <<"1","4",":","0","0">>
S_D15 == <<"2","0","2","4","-","0","4","-","1","5">>
S_D20 == <<"2","0","2","4","-","0","4","-","2","0">>
S_TeamMeeting == <<"T","e","a","m"," ","M","e","e","t","i","n","g">>
S_project_review == <<"p","r","o","j","e","c","t"," ","r","e","v","i","e","w">>
S_conference == <<"c","o","n","f","e","r","e","n","c","e">>
S_Quarterly == <<"Q","u","a","r","t","e","r","l","y"," ","r","e","v","i","e","w">>
S_hello == <<"h","e","l","l","o">>
S_Add_Event == <<"A","d","d"," ","E","v","e","n","t">>
SP == <<" ">>

Whitespace == {" "}

----------------------------------------------------------------------------
(* Python str methods *)

\* str.lower on one character; the capitals are those of the model's inputs
lower_char(c) ==
    CASE c = "A" -> "a" [] c = "E" -> "e" [] c = "M" -> "m"
      [] c = "Q" -> "q" [] c = "T" -> "t" [] OTHER -> c

RECURSIVE str_lower(_)
str_lower(s) ==
    IF s = <<>> THEN <<>> ELSE <<lower_char(Head(s))>> \o str_lower(Tail(s))

StartsWithAt(s, sub, i) ==
    /\ i + Len(sub) - 1 <= Len(s)
    /\ \A k \in 1..Len(sub) : s[i + k - 1] = sub[k]

\* str.find from position i: least index (1-based) of an occurrence of sub at
\* or after i, 0 when there is none
RECURSIVE str_find_from(_, _, _)
str_find_from(s, sub, i) ==
    IF i + Len(sub) - 1 > Len(s) THEN 0
    ELSE IF StartsWithAt(s, sub, i) THEN i
    ELSE str_find_from(s, sub, i + 1)

str_find(s, sub) == str_find_from(s, sub, 1)

\* `sub in s`
str_contains(s, sub) == str_find(s, sub) > 0

\* s.split(sep): cut at every non-overlapping occurrence of sep, left to right
RECURSIVE str_split(_, _)
str_split(s, sep) ==
    LET j == str_find(s, sep) IN
    IF j = 0 THEN <<s>>
    ELSE <<SubSeq(s, 1, j - 1)>> \o str_split(SubSeq(s, j + Len(sep), Len(s)), sep)

\* s.replace(old, ''): delete every non-overlapping occurrence of old
RECURSIVE str_remove(_, _)
str_remove(s, old) ==
    LET j == str_find(s, old) IN
    IF j = 0 THEN s
    ELSE SubSeq(s, 1, j - 1) \o str_remove(SubSeq(s, j + Len(old), Len(s)), old)

RECURSIVE str_lstrip(_)
str_lstrip(s) ==
    IF s # <<>> /\ Head(s) \in Whitespace THEN str_lstrip(Tail(s)) ELSE s

RECURSIVE str_rstrip(_)
str_rstrip(s) ==
    IF s # <<>> /\ s[Len(s)] \in Whitespace
    THEN str_rstrip(SubSeq(s, 1, Len(s) - 1)) ELSE s

str_strip(s) == str_rstrip(str_lstrip(s))

\* s.split() without argument: the maximal runs of non-whitespace
RECURSIVE str_words(_)
str_words(s) ==
    LET t == str_lstrip(s) IN
    IF t = <<>> THEN <<>>
    ELSE LET ws == {i \in 1..Len(t) : t[i] \in Whitespace}
             e  == IF ws = {} THEN Len(t) + 1
                   ELSE CHOOSE i \in ws : \A j \in ws : i <= j
         IN <<SubSeq(t, 1, e - 1)>> \o str_words(SubSeq(t, e, Len(t)))

----------------------------------------------------------------------------
(* The backing file and JSON *)

KeyOrder == <<"title", "date", "time", "description">>

NoFile == [exists |-> FALSE, text |-> <<>>]

\* a dump that leaves out the members whose value is empty
json_dump_object_skip_empty(event) ==
    LET present == SelectSeq(KeyOrder,
                             LAMBDA k : k \in DOMAIN event /\ event[k] # S_empty)
    IN [i \in 1..Len(present) |-> <<present[i], event[present[i]]>>]

\* json.dump of one dict: its members as a sequence of <<key, value>> pairs
json_dump_object(event) ==
    LET present == SelectSeq(KeyOrder, LAMBDA k : k \in DOMAIN event)
    IN [i \in 1..Len(present) |-> <<present[i], event[present[i]]>>]

\* json.dump of the list
json_dump(list) == [i \in 1..Len(list) |-> json_dump_object(list[i])]

\* json.load of one object: a dict with the members' keys
json_load_object(members) ==
    [k \in {members[i][1] : i \in 1..Len(members)} |->
        LET i == CHOOSE i \in 1..Len(members) :
                    /\ members[i][1] = k
                    /\ \A j \in (i + 1)..Len(members) : members[j][1] # k
        IN members[i][2]]

json_load(text) == [i \in 1..Len(text) |-> json_load_object(text[i])]

\* load_calendar: the parsed file, or [] when the file does not exist
load_calendar(f) == IF f.exists THEN json_load(f.text) ELSE <<>>

\* save_calendar: the file after writing `list` to it
save_calendar(list) == [exists |-> TRUE, text |-> json_dump(list)]

----------------------------------------------------------------------------
(* The list operations of the store *)

required_keys_no_time == <<"title", "date">>

required_keys_no_title == <<"date", "time">>

required_keys == <<"title", "date", "time">>

\* all(key in event for key in required_keys)
has_required_keys(event) ==
    \A i \in 1..Len(required_keys) : required_keys[i] \in DOMAIN event

list_insert_front(list, event) == <<event>> \o list

\* list.append
list_append(list, event) == Append(list, event)

\* event[k] raises KeyError for some element of the list
raises_KeyError(list, k) == \E i \in 1..Len(list) : k \notin DOMAIN list[i]

RECURSIVE without_first_title(_, _)
without_first_title(list, event_title) ==
    IF list = <<>> THEN <<>>
    ELSE IF Head(list)["title"] = event_title THEN Tail(list)
    ELSE <<Head(list)>> \o without_first_title(Tail(list), event_title)

\* [event for event in list if event['title'] != event_title]
RECURSIVE without_title(_, _)
without_title(list, event_title) ==
    IF list = <<>> THEN <<>>
    ELSE (IF Head(list)["title"] # event_title THEN <<Head(list)>> ELSE <<>>)
         \o without_title(Tail(list), event_title)

RECURSIVE first_event_for_date(_, _)
first_event_for_date(list, date) ==
    IF list = <<>> THEN <<>>
    ELSE IF Head(list)["date"] = date THEN <<Head(list)>>
    ELSE first_event_for_date(Tail(list), date)

\* [event for event in list if event['date'] == date]
RECURSIVE events_for_date(_, _)
events_for_date(list, date) ==
    IF list = <<>> THEN <<>>
    ELSE (IF Head(list)["date"] = date THEN <<Head(list)>> ELSE <<>>)
         \o events_for_date(Tail(list), date)

----------------------------------------------------------------------------
(* History of the main thread's calls *)

Call(op, arg) == [op |-> op, arg |-> arg]

NoCall == [op |-> "none", arg |-> <<>>]

\* `last` after a call: what was called, with what, from which state, and how it ended
Outcome(call, callee, callee_arg, err, result) ==
    [op |-> call.op, arg |-> call.arg, callee |-> callee, callee_arg |-> callee_arg,
     pre |-> calendar_data, prefile |-> file, err |-> err, result |-> result]

Record(call, callee, callee_arg, err, result) ==
    /\ last' = Outcome(call, callee, callee_arg, err, result)
    /\ prev' = IF last.pre = <<>> THEN Call(last.op, last.arg) ELSE NoCall

\* the store's values seen while the notifier's comprehension is running
Observe(new) ==
    tickStores' = IF n_pc \in {"filter", "iterate"}
                  THEN tickStores \cup {new} ELSE tickStores

\* the call raises: nothing is assigned
Raise(call, callee, callee_arg, err) ==
    /\ UNCHANGED <<calendar_data, file, it_shared, it_list, tickStores>>
    /\ Record(call, callee, callee_arg, err, <<>>)

----------------------------------------------------------------------------
(* Main thread: the store's operations *)

\* the list object is changed where it is: an iterator on it sees the change
assign_in_place(new) ==
    /\ calendar_data' = new
    /\ UNCHANGED <<it_shared, it_list>>

\* self.calendar_data = <new list>: the old list object keeps its contents,
\* and an iterator on it no longer follows self.calendar_data
rebind_calendar_data(new) ==
    /\ calendar_data' = new
    /\ it_shared' = FALSE
    /\ it_list' = IF it_shared THEN calendar_data ELSE it_list

add_event(event, call) ==
    IF ~has_required_keys(event)
    THEN Raise(call, "add_event", event, "ValueError")
    ELSE /\ calendar_data' = list_append(calendar_data, event)
         /\ UNCHANGED <<it_shared, it_list>>
         /\ file' = save_calendar(calendar_data')
         /\ Observe(calendar_data')
         /\ Record(call, "add_event", event, "none", <<>>)

remove_event(event_title, call) ==
    IF raises_KeyError(calendar_data, "title")
    THEN Raise(call, "remove_event", event_title, "KeyError")
    ELSE /\ rebind_calendar_data(without_title(calendar_data, event_title))
         /\ file' = save_calendar(calendar_data')
         /\ Observe(calendar_data')
         /\ Record(call, "remove_event", event_title, "none", <<>>)

get_events_for_date(date) ==
    LET call == Call("get_events_for_date", date) IN
    IF raises_KeyError(calendar_data, "date")
    THEN Raise(call, "get_events_for_date", date, "KeyError")
    ELSE /\ UNCHANGED <<calendar_data, file, it_shared, it_list, tickStores>>
         /\ Record(call, "get_events_for_date", date, "none",
                   events_for_date(calendar_data, date))

----------------------------------------------------------------------------
(* Inputs *)

\* the event main() adds
E_main == [title |-> S_TeamMeeting, date |-> S_D15, time |-> S_1000,
           description |-> S_Quarterly]

\* an event without the optional description
E_plain == [title |-> S_project_review, date |-> S_D20, time |-> S_1000]

\* an event whose required fields are present and empty
E_blank == [title |-> S_empty, date |-> S_empty, time |-> S_empty]

Without(event, k) == [x \in DOMAIN event \ {k} |-> event[x]]

CompleteEvents == {E_main, E_plain, E_blank}

IncompleteEvents ==
    {Without(E_main, "title"), Without(E_main, "date"), Without(E_main, "time"),
     Without(E_plain, "time"), [description |-> S_Quarterly]}

Titles == {S_project_review, S_conference, S_TeamMeeting, S_empty}
Dates == {S_D15, S_D20}
TimeOpts == {S_empty, S_1400}

\* "add event <title> on <date> [<time>]"
AddMsg(T, D, tm) ==
    S_add_event \o SP \o T \o SP \o S_on \o SP \o D
    \o (IF tm = S_empty THEN S_empty ELSE SP \o tm)

\* "remove event <title>"
RemoveMsg(T) == S_remove_event \o SP \o T

AddMessages == {AddMsg(T, D, tm) : T \in Titles, D \in Dates, tm \in TimeOpts}
                \cup {S_Add_Event \o SP \o S_project_review \o SP \o S_on \o SP \o S_D15}

OtherMessages ==
    {RemoveMsg(T) : T \in Titles}
    \cup {S_hello, S_add_event \o SP \o S_hello, S_add_event \o SP \o S_on}

Messages == AddMessages \cup OtherMessages

RemoveTitles == {S_TeamMeeting, S_project_review, S_empty}

----------------------------------------------------------------------------
(* Main thread: the command parser *)

NoEvent == [none |-> S_empty]

Parse(branch, err, event, title) ==
    [branch |-> branch, err |-> err, event |-> event, title |-> title]

\* the parsing half of process_message: which branch is taken, what it
\* extracts, and whether the extraction raises
parse_message(message) ==
    LET m == str_lower(message) IN
    IF str_contains(m, S_add_event)
    THEN LET parts == str_split(m, S_on)
             title == str_strip(str_remove(parts[1], S_add_event))
         IN IF Len(parts) < 2
            THEN Parse("add", "IndexError", NoEvent, S_empty)
            ELSE LET date_time == str_words(str_strip(parts[2]))
                 IN IF Len(date_time) < 1
                    THEN Parse("add", "IndexError", NoEvent, S_empty)
                    ELSE Parse("add", "none",
                           [title |-> title,
                            date |-> date_time[1],
                            time |-> IF Len(date_time) > 1 THEN date_time[2] ELSE S_0900,
                            description |-> S_empty],
                           S_empty)
    ELSE IF str_contains(m, S_remove_event)
    THEN Parse("remove", "none", NoEvent, str_strip(str_remove(m, S_remove_event)))
    ELSE Parse("ignored", "none", NoEvent, S_empty)

\* parse_message on each message of the model, evaluated once
Parsed == {<<m, parse_message(m)>> : m \in Messages}

parsed(message) == (CHOOSE p \in Parsed : p[1] = message)[2]

process_message(message) ==
    LET call == Call("process_message", message)
        p == parsed(message)
    IN
    IF p.err # "none" THEN Raise(call, "none", <<>>, p.err)
    ELSE IF p.branch = "add" THEN add_event(p.event, call)
    ELSE IF p.branch = "remove" THEN remove_event(p.title, call)
    ELSE /\ UNCHANGED <<calendar_data, file, it_shared, it_list, tickStores>>
         /\ Record(call, "none", <<>>, "none", <<>>)

----------------------------------------------------------------------------
(* The program run by one thread *)

Init ==
    /\ file \in {NoFile, save_calendar(<<E_main>>)}
    /\ calendar_data = load_calendar(file)
    /\ last = Outcome(Call("__init__", <<>>), "load_calendar", <<>>, "none", <<>>)
    /\ prev = NoCall
    /\ n_pc = "idle"
    /\ today = S_empty
    /\ it_shared = FALSE
    /\ it_list = <<>>
    /\ it_idx = 0
    /\ today_events = <<>>
    /\ sent = <<>>
    /\ tickStores = {}

MainAdd ==
    \E e \in CompleteEvents \cup IncompleteEvents :
        /\ Len(calendar_data) < MaxEvents
        /\ add_event(e, Call("add_event", e))
        /\ UNCHANGED notifier_vars

MainRemove ==
    \E t \in RemoveTitles :
        /\ remove_event(t, Call("remove_event", t))
        /\ UNCHANGED notifier_vars

MainQuery ==
    \E d \in Dates :
        /\ get_events_for_date(d)
        /\ UNCHANGED notifier_vars

MainAddMessage ==
    \E m \in AddMessages :
        /\ Len(calendar_data) < MaxEvents
        /\ process_message(m)
        /\ UNCHANGED notifier_vars

MainOtherMessage ==
    \E m \in OtherMessages :
        /\ process_message(m)
        /\ UNCHANGED notifier_vars

Next == MainAdd \/ MainRemove \/ MainQuery \/ MainAddMessage \/ MainOtherMessage

Spec == Init /\ [][Next]_vars

----------------------------------------------------------------------------
(* Notifier thread: check_events, run by the scheduler once a day *)

\* the list object the comprehension of get_events_for_date iterates
IteratedList == IF it_shared THEN calendar_data ELSE it_list

\* the job fires: today = datetime.date.today().strftime('%Y-%m-%d')
check_events_fire ==
    /\ n_pc = "idle"
    /\ \E d \in Dates : today' = d
    /\ n_pc' = "filter"
    /\ today_events' = <<>>
    /\ sent' = <<>>
    /\ tickStores' = {calendar_data}
    /\ UNCHANGED <<main_vars, it_shared, it_list, it_idx>>

\* get_events_for_date(today) reads self.calendar_data and takes its iterator
comprehension_start ==
    /\ n_pc = "filter"
    /\ n_pc' = "iterate"
    /\ it_shared' = TRUE
    /\ it_list' = <<>>
    /\ it_idx' = 0
    /\ today_events' = <<>>
    /\ UNCHANGED <<main_vars, today, sent, tickStores>>

\* one round of the comprehension: the iterator yields the next element of the
\* list as the list is now, or is exhausted and the result becomes today_events
comprehension_step ==
    /\ n_pc = "iterate"
    /\ IF it_idx < Len(IteratedList)
       THEN LET event == IteratedList[it_idx + 1] IN
            IF "date" \notin DOMAIN event
            THEN /\ n_pc' = "dead"
                 /\ UNCHANGED <<it_idx, today_events, it_shared, it_list>>
            ELSE /\ it_idx' = it_idx + 1
                 /\ today_events' = IF event["date"] = today
                                    THEN Append(today_events, event)
                                    ELSE today_events
                 /\ UNCHANGED <<n_pc, it_shared, it_list>>
       ELSE /\ n_pc' = "send"
            /\ it_shared' = FALSE
            /\ it_list' = <<>>
            /\ it_idx' = 0
            /\ UNCHANGED today_events
    /\ UNCHANGED <<main_vars, today, sent, tickStores>>

Attempt(event, outcome) == [event |-> event, outcome |-> outcome]

\* the SMTP failure leaves the function: check_events and the thread end
send_email_notification_uncaught(event) ==
    IF \E k \in {"title", "date", "time"} : k \notin DOMAIN event
    THEN n_pc' = "dead" /\ UNCHANGED sent
    ELSE \E outcome \in {"sent", "failed"} :
            /\ sent' = Append(sent, Attempt(event, outcome))
            /\ n_pc' = IF outcome = "failed" THEN "dead" ELSE n_pc

\* the message is built outside the try (KeyError leaves the function); the
\* SMTP session is inside it, and whatever it raises is caught and printed
send_email_notification(event) ==
    IF \E k \in {"title", "date", "time"} : k \notin DOMAIN event
    THEN n_pc' = "dead" /\ UNCHANGED sent
    ELSE \E outcome \in {"sent", "failed"} :
            /\ sent' = Append(sent, Attempt(event, outcome))
            /\ n_pc' = n_pc

\* for event in today_events: self.send_email_notification(event)
check_events_send ==
    /\ n_pc = "send"
    /\ Len(sent) < Len(today_events)
    /\ send_email_notification(today_events[Len(sent) + 1])
    /\ UNCHANGED <<main_vars, today, it_shared, it_list, it_idx, today_events,
                   tickStores>>

\* the loop is over: the job returns to the scheduler and its locals are gone
check_events_return ==
    /\ n_pc = "send"
    /\ Len(sent) = Len(today_events)
    /\ n_pc' = "idle"
    /\ today' = S_empty
    /\ today_events' = <<>>
    /\ sent' = <<>>
    /\ tickStores' = {}
    /\ UNCHANGED <<main_vars, it_shared, it_list, it_idx>>

----------------------------------------------------------------------------
(* The program run by main(): the notifier thread beside the main thread *)

E_other == [title |-> S_TeamMeeting, date |-> S_D20, time |-> S_1400]

ConcEvents == {E_plain, E_other}

ConcTitles == {S_TeamMeeting, S_project_review}

\* the history of one tick holds at most MaxTickStores values of the store
TickRoom ==
    n_pc \in {"filter", "iterate"} => Cardinality(tickStores) < MaxTickStores

ConcAdd ==
    \E e \in ConcEvents :
        /\ Len(calendar_data) < MaxConcEvents
        /\ TickRoom
        /\ add_event(e, Call("add_event", e))
        /\ UNCHANGED notifier_vars

ConcRemove ==
    \E t \in ConcTitles :
        /\ TickRoom
        /\ remove_event(t, Call("remove_event", t))
        /\ UNCHANGED notifier_vars

NextConc ==
    \/ ConcAdd
    \/ ConcRemove
    \/ check_events_fire
    \/ comprehension_start
    \/ comprehension_step
    \/ check_events_send
    \/ check_events_return

SpecConc == Init /\ [][NextConc]_vars

----------------------------------------------------------------------------
(* Properties *)

RequiredFields == {"title", "date", "time"}

\* the events of a list that are dated d, in the list's order
OnDate(list, d) == SelectSeq(list, LAMBDA e : e["date"] = d)

\* title, date and time are present and non-empty
Complete(e) == \A k \in RequiredFields : k \in DOMAIN e /\ e[k] # S_empty

StoredDates == {calendar_data[i]["date"] : i \in 1..Len(calendar_data)}

\* C1: add_event on an event that lacks title, date or time raises the
\* validation error and leaves the in-memory sequence and the file as they were.
C1_AddRejectsIncomplete ==
    (/\ last.callee = "add_event"
     /\ \E k \in RequiredFields : k \notin DOMAIN last.callee_arg)
    => /\ last.err = "ValueError"
       /\ calendar_data = last.pre
       /\ file = last.prefile

C1_Witness ==
    /\ last.callee = "add_event"
    /\ "title" \in DOMAIN last.callee_arg
    /\ "time" \notin DOMAIN last.callee_arg
    /\ last.err = "ValueError"
    /\ last.pre # <<>>

\* C2: add_event on an event with non-empty title, date and time succeeds,
\* appends it after the unchanged earlier elements, and get_events_for_date
\* on its date then includes it.
C2_AddAppends ==
    (last.callee = "add_event" /\ Complete(last.callee_arg))
    => LET e == last.callee_arg
           found == events_for_date(calendar_data, e["date"])
       IN /\ last.err = "none"
          /\ Len(calendar_data) = Len(last.pre) + 1
          /\ calendar_data[Len(calendar_data)] = e
          /\ SubSeq(calendar_data, 1, Len(last.pre)) = last.pre
          /\ \E i \in 1..Len(found) : found[i] = e

C2_Witness ==
    /\ last.callee = "add_event"
    /\ Complete(last.callee_arg)
    /\ Len(last.pre) = 1
    /\ last.pre[1] # last.callee_arg
    /\ calendar_data = <<last.pre[1], last.callee_arg>>

\* C3: remove_event(t) raises nothing, deletes every event titled exactly t,
\* keeps the others in their order, and afterwards get_events_for_date on any
\* date returns no event titled t.
C3_RemoveDeletesAllMatches ==
    last.callee = "remove_event"
    => LET t == last.callee_arg IN
       /\ last.err = "none"
       /\ calendar_data = SelectSeq(last.pre, LAMBDA e : e["title"] # t)
       /\ \A d \in Dates \cup StoredDates :
             LET found == events_for_date(calendar_data, d)
             IN \A i \in 1..Len(found) : found[i]["title"] # t

C3_Witness ==
    /\ last.callee = "remove_event"
    /\ Len(last.pre) = 2
    /\ last.pre[1]["title"] = last.callee_arg
    /\ last.pre[2]["title"] = last.callee_arg
    /\ last.pre[1]["date"] # last.pre[2]["date"]
    /\ calendar_data = <<>>

\* C4: get_events_for_date(d) returns exactly the stored events whose date
\* equals d, in insertion order, whatever their time, and changes neither the
\* stored sequence nor the file.
C4_QueryFiltersByDate ==
    last.op = "get_events_for_date"
    => /\ last.err = "none"
       /\ last.result = OnDate(last.pre, last.arg)
       /\ calendar_data = last.pre
       /\ file = last.prefile

C4_Witness ==
    /\ last.op = "get_events_for_date"
    /\ Len(last.result) = 2
    /\ last.result[1]["time"] # last.result[2]["time"]

\* C5: between calls, loading the backing file yields the in-memory sequence,
\* and loading an absent file yields the empty sequence.
C5_RoundTrip ==
    /\ load_calendar(file) = calendar_data
    /\ ~file.exists => load_calendar(file) = <<>>

C5_Witness ==
    /\ file.exists
    /\ last.err = "ValueError"
    /\ Len(calendar_data) = 1
    /\ "description" \in DOMAIN calendar_data[1]
    /\ calendar_data[1]["description"] = S_empty

\* C6 as stated: every stored event has a title, a date and a time that are
\* present and non-empty.
C6_Original == \A i \in 1..Len(calendar_data) : Complete(calendar_data[i])

\* C6 as amended: every stored event has the keys title, date and time; their
\* values may be empty strings.
C6_RequiredKeysPresent ==
    \A i \in 1..Len(calendar_data) : RequiredFields \subseteq DOMAIN calendar_data[i]

C6_Witness ==
    /\ last.op = "process_message"
    /\ last.callee = "add_event"
    /\ last.err = "none"
    /\ Len(calendar_data) = 2
    /\ calendar_data[2]["title"] = S_empty
    /\ calendar_data[1] = E_blank

\* C7: process_message on "add event <title> on <date> [<time>]" appends exactly
\* one event: the trimmed <title>, <date>, <time> or "09:00", empty description.
C7_ParsedAddMatchesMessage ==
    \A T \in Titles, D \in Dates, tm \in TimeOpts :
        (last.op = "process_message" /\ last.arg = AddMsg(T, D, tm))
        => /\ last.err = "none"
           /\ calendar_data =
                Append(last.pre,
                       [title |-> str_strip(T), date |-> D,
                        time |-> IF tm = S_empty THEN S_0900 ELSE tm,
                        description |-> S_empty])

\* C8: from an empty store, "add event T on D ..." followed by "remove event T"
\* removes the event the first message added, and get_events_for_date(D) is empty.
C8_AddThenRemoveLeavesNothing ==
    \A T \in Titles, D \in Dates, tm \in TimeOpts :
        (/\ prev.op = "process_message"
         /\ prev.arg = AddMsg(T, D, tm)
         /\ last.op = "process_message"
         /\ last.arg = RemoveMsg(T))
        => /\ calendar_data = <<>>
           /\ events_for_date(calendar_data, D) = <<>>

SentEvents == [i \in 1..Len(sent) |-> sent[i].event]

\* C9: in a tick, sends are attempted for the events get_events_for_date(today)
\* returned, one each, in order, whatever the earlier sends' outcomes, and no
\* failure ends the tick; with the store unchanged meanwhile these are exactly
\* the stored events dated today.
C9_TickSendsEachOnce ==
    /\ n_pc # "dead"
    /\ n_pc = "send" => SentEvents = SubSeq(today_events, 1, Len(sent))
    /\ \A s \in tickStores :
          (n_pc = "send" /\ tickStores = {s}) => today_events = OnDate(s, today)

C9_Witness ==
    /\ n_pc = "send"
    /\ Len(today_events) = 2
    /\ Len(sent) = 2
    /\ sent[1].outcome = "failed"
    /\ sent[2].outcome = "sent"
    /\ Len(calendar_data) = 2
    /\ tickStores = {calendar_data}

NotifierMoved == notifier_vars' # notifier_vars

\* C10: a step of the tick changes neither the stored sequence nor the file, and
\* the events the tick notifies are get_events_for_date(today) of one value the
\* store had during the tick.
C10_TickReadsSnapshot ==
    /\ [][NotifierMoved => UNCHANGED <<calendar_data, file>>]_vars
    /\ [](n_pc = "send" => \E s \in tickStores : today_events = OnDate(s, today))

C10_Witness ==
    /\ n_pc = "send"
    /\ Cardinality(tickStores) = 2
    /\ today_events # <<>>
    /\ today_events # OnDate(calendar_data, today)
    /\ Len(sent) = Len(today_events)

====
